---- MODULE Spec2Model ----
(***************************************************************************)
(* peasy: styling helpers over a plotting backend.                         *)
(*                                                                         *)
(* The model covers the utility core: utils/ops.py (group_indices),        *)
(* _bubbles.py (InfList), _validation.py (argument combinators) and        *)
(* _palettes.py (DiscretePalette, ContinuousPalette, Palette).             *)
(*                                                                         *)
(* Every call is one action.  `ret` holds the last call: its name, its     *)
(* arguments and its outcome (`err` is the raised exception type, "" when  *)
(* the call returned).  `data` is the list held by an InfList object and   *)
(* `palette` the fields of a Palette object; `queue` is the queue of a      *)
(* MultiArtist.  _params.py (validators, Legend), _colony.py (Colony),     *)
(* functional/_line.py and _artist.py are modelled further down.           *)
(***************************************************************************)
EXTENDS Integers, Sequences, FiniteSets, TLC

VARIABLES ret, data, palette, queue

vars == <<ret, data, palette, queue>>

(***************************************************************************)
(* Bounds of the model.                                                    *)
(***************************************************************************)
MaxLen == 4        \* longest key array passed to group_indices
MaxKey == 3        \* keys are 1..MaxKey
MaxArgs == 3       \* most arguments passed to a validation combinator
MaxData == 3       \* longest list wrapped in an InfList
MaxIdx == 7        \* largest index and slice bound
MaxNeg == 3        \* indices and slice bounds range over -MaxNeg..MaxIdx
MaxStep == 2       \* slice steps range over -MaxStep..MaxStep
MaxPal == 2        \* longest colour list passed to a palette
MaxRamp == 5       \* length of the short continuous ramp
MaxDn == 3         \* d_n ranges over 1..MaxDn and the default
MaxHue == 3        \* integer hues range over -1..MaxHue
MaxHueLen == 2     \* longest hue array

(***************************************************************************)
(* Python values.  A value is a record of its type and its payload, so     *)
(* that None, integers and strings can share a collection.                 *)
(***************************************************************************)
PyNone == [type |-> "NoneType", v |-> 0]

PyInt(n) == [type |-> "int", v |-> n]

IsNone(x) == x.type = "NoneType"

\* bool(x) for None and integers
Truthy(x) == x.type = "int" /\ x.v # 0

Min(a, b) == IF a <= b THEN a ELSE b

Max(a, b) == IF a >= b THEN a ELSE b

\* The ascending sequence of the integers of a finite set
RECURSIVE SortedSeq(_)
SortedSeq(S) ==
  IF S = {} THEN <<>>
  ELSE LET m == CHOOSE a \in S : \A b \in S : a <= b
       IN <<m>> \o SortedSeq(S \ {m})

\* All sequences over S of length 0..n
SeqsUpTo(S, n) == UNION {[1..k -> S] : k \in 0..n}

\* No call is in progress: the library is synchronous, a call runs to its
\* outcome and control is back with the caller before the next call starts
NoCall == [op |-> "none", err |-> ""]

\* The caller takes the outcome of the call
Return ==
  /\ ret # NoCall
  /\ ret' = NoCall
  /\ UNCHANGED <<data, palette, queue>>

(***************************************************************************)
(* utils/ops.py: group_indices                                             *)
(* Positions are 0-based as in the source; x[p + 1] is the key at p.       *)
(***************************************************************************)

\* A sort that places an index before the equal keys already placed
UnstableInsert(x, sorted, p) ==
  LET pos == Cardinality({k \in 1..Len(sorted) : x[sorted[k] + 1] < x[p + 1]})
  IN SubSeq(sorted, 1, pos) \o <<p>> \o SubSeq(sorted, pos + 1, Len(sorted))

\* One step of the stable sort: p goes after every index whose key is <= its key
StableInsert(x, sorted, p) ==
  LET pos == Cardinality({k \in 1..Len(sorted) : x[sorted[k] + 1] <= x[p + 1]})
  IN SubSeq(sorted, 1, pos) \o <<p>> \o SubSeq(sorted, pos + 1, Len(sorted))

\* np.argsort(x, kind='stable') over the first n positions
RECURSIVE ArgSortPrefix(_, _)
ArgSortPrefix(x, n) ==
  IF n = 0 THEN <<>> ELSE StableInsert(x, ArgSortPrefix(x, n - 1), n - 1)

ArgSort(x) == ArgSortPrefix(x, Len(x))

\* np.unique(sorted_x, return_index=True)[1]: first position of each value
FirstIndices(sx) ==
  SortedSeq({i \in 0..(Len(sx) - 1) :
               \A j \in 0..(Len(sx) - 1) : sx[j + 1] = sx[i + 1] => i <= j})

\* np.unique(sorted_x, return_index=True)[0]
UniqueItems(sx) ==
  LET first == FirstIndices(sx) IN [j \in 1..Len(first) |-> sx[first[j] + 1]]

\* np.split(a, cuts): a[:c1], a[c1:c2], ..., a[ck:]
Split(a, cuts) ==
  [j \in 1..(Len(cuts) + 1) |->
     SubSeq(a,
            (IF j = 1 THEN 0 ELSE cuts[j - 1]) + 1,
            IF j = Len(cuts) + 1 THEN Len(a) ELSE cuts[j])]

\* The boolean mask of a group over the input length
AsMask(n, group) ==
  [p \in 1..n |-> \E k \in 1..Len(group) : group[k] = p - 1]

group_indices(x, as_mask) ==
  IF Len(x) = 0
  THEN [op |-> "group_indices", x |-> x, as_mask |-> as_mask,
        err |-> "ValueError", unique |-> <<>>, groups |-> <<>>]
  ELSE LET argidx == ArgSort(x)
           sorted_x == [k \in 1..Len(x) |-> x[argidx[k] + 1]]
           unique_items == UniqueItems(sorted_x)
           first_indices == FirstIndices(sorted_x)
           groups == Split(argidx, Tail(first_indices))
       IN IF Len(unique_items) # Len(groups)
          THEN [op |-> "group_indices", x |-> x, as_mask |-> as_mask,
                err |-> "AssertionError", unique |-> <<>>, groups |-> <<>>]
          ELSE [op |-> "group_indices", x |-> x, as_mask |-> as_mask,
                err |-> "", unique |-> unique_items,
                groups |-> IF as_mask
                           THEN [j \in 1..Len(groups) |-> AsMask(Len(x), groups[j])]
                           ELSE groups]

\* The example of the docstring
DocExample == <<1, 4, 3, 2, 1, 2, 3, 3, 4>>

KeyArrays == SeqsUpTo(1..MaxKey, MaxLen) \cup {DocExample}

GroupIndices ==
  \E x \in KeyArrays, as_mask \in BOOLEAN :
    /\ ret = NoCall
    /\ ret' = group_indices(x, as_mask)
    /\ UNCHANGED <<data, palette, queue>>

(***************************************************************************)
(* _validation.py                                                          *)
(***************************************************************************)
PyVals == {PyNone, PyInt(0), PyInt(5), PyInt(6)}

ArgLists == SeqsUpTo(PyVals, MaxArgs)

\* list(compress(args, is_true))
Compress(args, is_true) ==
  LET keep == SortedSeq({k \in 1..Len(args) : is_true[k]})
  IN [j \in 1..Len(keep) |-> args[keep[j]]]

\* sum(flags) of a list of booleans
SumTrue(flags) == Cardinality({k \in 1..Len(flags) : flags[k]})

\* Raises only when no argument is truthy: the first truthy argument wins
first_truthy_wins(args) ==
  LET is_true == [k \in 1..Len(args) |-> Truthy(args[k])]
  IN IF SumTrue(is_true) < 1
     THEN [op |-> "there_can_be_only_one", args |-> args,
           err |-> "ValueError", val |-> PyNone]
     ELSE [op |-> "there_can_be_only_one", args |-> args,
           err |-> "", val |-> Compress(args, is_true)[1]]

there_can_be_only_one(args) ==
  LET is_true == [k \in 1..Len(args) |-> Truthy(args[k])]
  IN IF SumTrue(is_true) # 1
     THEN [op |-> "there_can_be_only_one", args |-> args,
           err |-> "ValueError", val |-> PyNone]
     ELSE [op |-> "there_can_be_only_one", args |-> args,
           err |-> "", val |-> Compress(args, is_true)[1]]

\* The exception there_should_be_at_least_one raises, "" when it returns
there_should_be_at_least_one(args) ==
  LET are_none == [k \in 1..Len(args) |-> IsNone(args[k])]
  IN IF ~(\E k \in 1..Len(args) : are_none[k]) THEN "ValueError" ELSE ""

ThereCanBeOnlyOne ==
  \E args \in ArgLists :
    /\ ret = NoCall
    /\ ret' = there_can_be_only_one(args)
    /\ UNCHANGED <<data, palette, queue>>

ThereShouldBeAtLeastOne ==
  \E args \in ArgLists :
    /\ ret = NoCall
    /\ ret' = [op |-> "there_should_be_at_least_one", args |-> args,
               err |-> there_should_be_at_least_one(args)]
    /\ UNCHANGED <<data, palette, queue>>

(***************************************************************************)
(* _bubbles.py: InfList                                                    *)
(***************************************************************************)
Items == {"a", "b", "c"}

ItemLists == SeqsUpTo(Items, MaxData)

Indices == (0 - MaxNeg)..MaxIdx

PyIndices == {PyInt(n) : n \in Indices}

\* A constructor that rejects the empty list
InfListNewNonEmpty(initlist) ==
  IF Len(initlist) = 0
  THEN [err |-> "ValueError", data |-> <<>>]
  ELSE [err |-> "", data |-> initlist]

\* InfList(initlist): UserList.__init__ copies the list, whatever its length
InfListNew(initlist) == [err |-> "", data |-> initlist]

\* An index clamped into the list instead of wrapped
ClampIndex(i, n) == IF i < 0 THEN Max(i + n, 0) ELSE Min(i, n - 1)

\* i % len(self.data), for len(self.data) > 0
WrapIndex(i, n) == i % n

\* self.data[i % len(self.data)]
InfListGetItem(d, i) ==
  IF Len(d) = 0
  THEN [err |-> "ZeroDivisionError", val |-> ""]
  ELSE [err |-> "", val |-> d[WrapIndex(i, Len(d)) + 1]]

\* range(lo, hi, step) as a sequence, step # 0
PyRange(lo, hi, step) ==
  LET count == IF step > 0
               THEN (IF lo < hi THEN ((hi - lo - 1) \div step) + 1 ELSE 0)
               ELSE (IF lo > hi THEN ((lo - hi - 1) \div (0 - step)) + 1 ELSE 0)
  IN [k \in 1..count |-> lo + (k - 1) * step]

\* The slice taken of the list itself: range(len(self.data))[i]
SliceOfData(start, stop, step, n) ==
  LET st == IF IsNone(step) THEN 1 ELSE step.v
      lower == IF st < 0 THEN 0 - 1 ELSE 0
      upper == IF st < 0 THEN n - 1 ELSE n
      s0 == IF IsNone(start) THEN (IF st < 0 THEN upper ELSE lower)
            ELSE IF start.v < 0 THEN Max(start.v + n, lower)
            ELSE Min(start.v, upper)
      e0 == IF IsNone(stop) THEN (IF st < 0 THEN lower ELSE upper)
            ELSE IF stop.v < 0 THEN Max(stop.v + n, lower)
            ELSE Min(stop.v, upper)
  IN IF st = 0 THEN [err |-> "ValueError", idx |-> <<>>]
     ELSE [err |-> "", idx |-> PyRange(s0, e0, st)]

\* list(range(i.stop)[i]): the slice i = slice(start, stop, step) is resolved
\* against a range of length max(stop, 0), as slice.indices does
SliceIndices(start, stop, step, n) ==
  IF IsNone(stop) THEN [err |-> "TypeError", idx |-> <<>>]
  ELSE LET length == Max(stop.v, 0)
           st == IF IsNone(step) THEN 1 ELSE step.v
           lower == IF st < 0 THEN 0 - 1 ELSE 0
           upper == IF st < 0 THEN length - 1 ELSE length
           s0 == IF IsNone(start) THEN (IF st < 0 THEN upper ELSE lower)
                 ELSE IF start.v < 0 THEN Max(start.v + length, lower)
                 ELSE Min(start.v, upper)
           e0 == IF stop.v < 0 THEN Max(stop.v + length, lower)
                 ELSE Min(stop.v, upper)
       IN IF st = 0 THEN [err |-> "ValueError", idx |-> <<>>]
          ELSE [err |-> "", idx |-> PyRange(s0, e0, st)]

\* [self.data[idx % len(self.data)] for idx in indices]: a plain list
InfListGetSlice(d, start, stop, step) ==
  LET r == SliceIndices(start, stop, step, Len(d))
  IN IF r.err # "" THEN [err |-> r.err, cls |-> "", val |-> <<>>]
     ELSE IF Len(r.idx) > 0 /\ Len(d) = 0
     THEN [err |-> "ZeroDivisionError", cls |-> "", val |-> <<>>]
     ELSE [err |-> "", cls |-> "list",
           val |-> [k \in 1..Len(r.idx) |-> d[WrapIndex(r.idx[k], Len(d)) + 1]]]

InfListInit ==
  \E initlist \in ItemLists :
    LET r == InfListNew(initlist)
    IN /\ ret = NoCall
       /\ ret' = [op |-> "InfList", initlist |-> initlist, err |-> r.err]
       /\ data' = IF r.err = "" THEN r.data ELSE data
       /\ UNCHANGED <<palette, queue>>

GetItem ==
  \E i \in Indices :
    LET r == InfListGetItem(data, i)
    IN /\ ret = NoCall
       /\ ret' = [op |-> "getitem", i |-> i, err |-> r.err, val |-> r.val]
       /\ UNCHANGED <<data, palette, queue>>

GetSlice ==
  \E start \in PyIndices \cup {PyNone}, stop \in PyIndices \cup {PyNone},
     step \in {PyInt(n) : n \in (0 - MaxStep)..MaxStep} \cup {PyNone} :
    LET r == InfListGetSlice(data, start, stop, step)
    IN /\ ret = NoCall
       /\ ret' = [op |-> "getslice", start |-> start, stop |-> stop,
                  step |-> step, err |-> r.err, cls |-> r.cls, val |-> r.val]
       /\ UNCHANGED <<data, palette, queue>>

(***************************************************************************)
(* _palettes.py                                                            *)
(* A colour is a string, held as its sequence of characters, or an RGB     *)
(* tuple, held as its channels.  A continuous palette of n colours blended *)
(* from anchors is held as the anchors and n; ColorAt gives its elements.  *)
(* `palette` is one Palette object: __init__ runs on it once, and after a  *)
(* failed construction there is no object.                                 *)
(***************************************************************************)
DefaultDN == 12

DefaultCN == 256

StrColor(chars) == [kind |-> "str", chars |-> chars]

RgbColor(chans) == [kind |-> "rgb", chars |-> chans]

Colors ==
  {StrColor(<<"#", "F", "0", "0">>),
   StrColor(<<"r", "e", "d">>),
   RgbColor(<<"0", "0", "1">>)}

ColorLists == SeqsUpTo(Colors, MaxPal) \ {<<>>}

HexDigits ==
  {"0", "1", "2", "3", "4", "5", "6", "7", "8", "9",
   "a", "b", "c", "d", "e", "f", "A", "B", "C", "D", "E", "F"}

\* re.search(r'^#(?:[0-9a-fA-F]{3}){1,2}$', item); $ also matches before a
\* newline that ends the string
IsHexColor(chars) ==
  LET n == Len(chars)
      body == IF n > 0 /\ chars[n] = "\n" THEN SubSeq(chars, 1, n - 1) ELSE chars
  IN /\ Len(body) \in {4, 7}
     /\ body[1] = "#"
     /\ \A k \in 2..Len(body) : body[k] \in HexDigits

LowerHex(ch) ==
  CASE ch = "A" -> "a" [] ch = "B" -> "b" [] ch = "C" -> "c"
    [] ch = "D" -> "d" [] ch = "E" -> "e" [] ch = "F" -> "f"
    [] OTHER -> ch

\* matplotlib.colors.to_hex: '#rrggbb' in lower case, for an RGB tuple of
\* channels 0 or 1, a 3- or 6-digit hex string, or the colour name 'red'
to_hex(c) ==
  IF c.kind = "rgb"
  THEN StrColor(<<"#">> \o
         [k \in 1..(2 * Len(c.chars)) |->
            IF c.chars[(k + 1) \div 2] = "1" THEN "f" ELSE "0"])
  ELSE IF c.chars = <<"r", "e", "d">>
  THEN StrColor(<<"#", "f", "f", "0", "0", "0", "0">>)
  ELSE IF Len(c.chars) = 4
  THEN StrColor(<<"#">> \o
         [k \in 1..6 |-> LowerHex(c.chars[((k + 1) \div 2) + 1])])
  ELSE StrColor([k \in 1..Len(c.chars) |-> LowerHex(c.chars[k])])

\* DiscretePalette(pal): non-strings are converted, strings are checked
DiscretePaletteNew(pal) ==
  IF \E k \in 1..Len(pal) : pal[k].kind = "str" /\ ~IsHexColor(pal[k].chars)
  THEN [err |-> "ValueError", cls |-> "", data |-> <<>>]
  ELSE [err |-> "", cls |-> "DiscretePalette",
        data |-> [k \in 1..Len(pal) |->
                    IF pal[k].kind # "str" THEN to_hex(pal[k]) ELSE pal[k]]]

\* ContinuousPalette(colors, n): sns.blend_palette(colors, n_colors=n).as_hex()
ContinuousPaletteNew(colors, n) ==
  [type |-> "ContinuousPalette", anchors |-> colors, n |-> n]

\* Element i (0-based) of a continuous palette: the blend is taken as the
\* anchor at or below position i * (m - 1) / (n - 1), as hex
ColorAt(c_pal, i) ==
  to_hex(c_pal.anchors[
    IF c_pal.n <= 1 THEN 1
    ELSE ((i * (Len(c_pal.anchors) - 1)) \div (c_pal.n - 1)) + 1])

NoneArg == [type |-> "NoneType", data |-> <<>>]

\* d_pal arguments: None, a DiscretePalette object, or a plain list (as
\* validate_cmap and validate_palette pass with Palette(pal))
DPalArgs ==
  {NoneArg}
  \cup {[type |-> "DiscretePalette", data |-> DiscretePaletteNew(l).data] :
          l \in {x \in ColorLists : DiscretePaletteNew(x).err = ""}}
  \cup {[type |-> "list", data |-> l] : l \in ColorLists}

PalArgs == {NoneArg} \cup {[type |-> "list", data |-> l] : l \in ColorLists}

NoneCPal == [type |-> "NoneType", anchors |-> <<>>, n |-> 0]

RampAnchors == <<StrColor(<<"#", "F", "0", "0">>), RgbColor(<<"0", "0", "1">>)>>

CPalArgs ==
  {NoneCPal}
  \cup {[type |-> "ListedColormap", anchors |-> RampAnchors, n |-> n] :
          n \in {MaxRamp, DefaultCN}}

\* range(0, len(c_pal), step), step > 0
RampSamples(n, step) == PyRange(0, n, step)

\* Palette.__init__
PaletteNew(d_pal, c_pal, pal, d_n, c_n) ==
  LET fail(e) == [err |-> e, d_pal |-> NoneArg, c_pal |-> NoneCPal]
      c1 == IF c_pal.type # "NoneType"
            THEN [type |-> "ContinuousPalette",
                  anchors |-> c_pal.anchors, n |-> c_pal.n]
            ELSE c_pal
      step == (c1.n - 1) \div d_n
      d1 == IF d_pal.type # "NoneType"
            THEN [err |-> "", cls |-> d_pal.type, data |-> d_pal.data]
            ELSE IF pal.type # "NoneType" THEN DiscretePaletteNew(pal.data)
            ELSE IF c1.type = "NoneType"
            THEN [err |-> "AssertionError", cls |-> "", data |-> <<>>]
            ELSE IF step = 0
            THEN [err |-> "ValueError", cls |-> "", data |-> <<>>]
            ELSE LET at == RampSamples(c1.n, step)
                 IN [err |-> "", cls |-> "list",
                     data |-> [k \in 1..Len(at) |-> ColorAt(c1, at[k])]]
      c2 == IF c1.type # "NoneType" THEN c1
            ELSE IF pal.type # "NoneType"
            THEN ContinuousPaletteNew(pal.data, c_n)
            ELSE ContinuousPaletteNew(d1.data, c_n)
  IN IF there_should_be_at_least_one(
          <<(IF d_pal.type = "NoneType" THEN PyNone ELSE PyInt(1)),
            (IF c_pal.type = "NoneType" THEN PyNone ELSE PyInt(1)),
            (IF pal.type = "NoneType" THEN PyNone ELSE PyInt(1))>>) # ""
     THEN fail("ValueError")
     ELSE IF d1.err # "" THEN fail(d1.err)
     ELSE [err |-> "", d_pal |-> [type |-> d1.cls, data |-> d1.data],
           c_pal |-> c2]

\* self.d_pal[i] for one hue element of an array of dtype kind
DPalGetItem(d_pal, kind, h) ==
  IF d_pal.type = "DiscretePalette"
  THEN IF kind # "i" THEN [err |-> "TypeError", val |-> StrColor(<<>>)]
       ELSE IF Len(d_pal.data) = 0
       THEN [err |-> "ZeroDivisionError", val |-> StrColor(<<>>)]
       ELSE [err |-> "", val |-> d_pal.data[WrapIndex(h, Len(d_pal.data)) + 1]]
  ELSE IF kind # "i" THEN [err |-> "TypeError", val |-> StrColor(<<>>)]
       ELSE IF h >= Len(d_pal.data) \/ h < 0 - Len(d_pal.data)
       THEN [err |-> "IndexError", val |-> StrColor(<<>>)]
       ELSE [err |-> "", val |-> d_pal.data[(IF h < 0 THEN h + Len(d_pal.data)
                                                        ELSE h) + 1]]

\* self.c_pal(x) for one float x, given in tenths: the colour at int(x * N),
\* clipped to the ends of the ramp
CPalLookup(c_pal, tenths) ==
  ColorAt(c_pal, Max(0, Min(c_pal.n - 1, (tenths * c_pal.n) \div 10)))

\* Palette.__call__
PaletteCallResult(p, hue, force_discrete) ==
  IF hue.kind = "f" /\ ~force_discrete
  THEN [err |-> "", view |-> "continuous",
        val |-> [k \in 1..Len(hue.vals) |->
                   to_hex(CPalLookup(p.c_pal, hue.vals[k]))]]
  ELSE LET got == [k \in 1..Len(hue.vals) |->
                     DPalGetItem(p.d_pal, hue.kind, hue.vals[k])]
           bad == {k \in 1..Len(got) : got[k].err # ""}
       IN IF bad # {}
          THEN [err |-> got[CHOOSE k \in bad : \A j \in bad : k <= j].err,
                view |-> "discrete", val |-> <<>>]
          ELSE [err |-> "", view |-> "discrete",
                val |-> [k \in 1..Len(got) |-> got[k].val]]

\* Hue arrays after np.asarray: one dtype kind per array.  Integers are
\* themselves, floats are in tenths, strings are numbered.
HueArrays ==
  {[kind |-> "i", vals |-> v] : v \in SeqsUpTo((0 - 1)..MaxHue, MaxHueLen)}
  \cup {[kind |-> "f", vals |-> v] : v \in SeqsUpTo({0, 5, 10}, MaxHueLen)}
  \cup {[kind |-> "U", vals |-> v] : v \in SeqsUpTo({1}, MaxHueLen) \ {<<>>}}

PaletteInit ==
  \E d_pal \in DPalArgs, c_pal \in CPalArgs, pal \in PalArgs,
     d_n \in (1..MaxDn) \cup {DefaultDN}, c_n \in {MaxRamp, DefaultCN} :
    LET r == PaletteNew(d_pal, c_pal, pal, d_n, c_n)
    IN /\ ret = NoCall
       /\ ~palette.built
       /\ ret' = [op |-> "Palette", d_pal |-> d_pal, c_pal |-> c_pal,
                  pal |-> pal, d_n |-> d_n, c_n |-> c_n, err |-> r.err]
       /\ palette' = IF r.err = ""
                     THEN [built |-> TRUE, d_pal |-> r.d_pal, c_pal |-> r.c_pal]
                     ELSE palette
       /\ UNCHANGED <<data, queue>>

PaletteCall ==
  \E hue \in HueArrays, force_discrete \in BOOLEAN :
    LET r == PaletteCallResult(palette, hue, force_discrete)
    IN /\ ret = NoCall
       /\ palette.built
       /\ ret' = [op |-> "Palette.__call__", hue |-> hue,
                  force_discrete |-> force_discrete, err |-> r.err,
                  view |-> r.view, val |-> r.val]
       /\ UNCHANGED <<data, palette, queue>>

(***************************************************************************)
(* Specifications                                                          *)
(***************************************************************************)
NoPalette == [built |-> FALSE]

Init ==
  /\ ret = NoCall
  /\ data = <<>>
  /\ palette = NoPalette
  /\ queue = <<>>

NextOps == GroupIndices \/ Return

SpecOps == Init /\ [][NextOps]_vars

NextInfList == InfListInit \/ GetItem \/ GetSlice \/ Return

SpecInfList == Init /\ [][NextInfList]_vars

NextPalette == PaletteInit \/ PaletteCall \/ Return

SpecPalette == Init /\ [][NextPalette]_vars

NextValidation == ThereCanBeOnlyOne \/ ThereShouldBeAtLeastOne \/ Return

SpecValidation == Init /\ [][NextValidation]_vars

(***************************************************************************)
(* C1: for a non-empty key array, group_indices returns as many groups as  *)
(* unique keys, the unique keys strictly ascending, and groups[j] lists    *)
(* exactly the positions holding unique_keys[j] in ascending order; every  *)
(* position is in exactly one group and the group lengths sum to len(k).   *)
(* The docstring example gives [1,2,3,4] and [[0,4],[3,5],[2,6,7],[1,8]].  *)
(***************************************************************************)
RECURSIVE SumLens(_)
SumLens(gs) == IF gs = <<>> THEN 0 ELSE Len(Head(gs)) + SumLens(Tail(gs))

GroupIndicesCorrect ==
  (ret.op = "group_indices" /\ Len(ret.x) > 0 /\ ~ret.as_mask) =>
    /\ ret.err = ""
    /\ Len(ret.unique) = Len(ret.groups)
    /\ \A j \in 1..(Len(ret.unique) - 1) : ret.unique[j] < ret.unique[j + 1]
    /\ \A j \in 1..Len(ret.groups) :
         ret.groups[j] =
           SortedSeq({p \in 0..(Len(ret.x) - 1) : ret.x[p + 1] = ret.unique[j]})
    /\ \A p \in 0..(Len(ret.x) - 1) :
         Cardinality({j \in 1..Len(ret.groups) :
                        \E k \in 1..Len(ret.groups[j]) : ret.groups[j][k] = p}) = 1
    /\ SumLens(ret.groups) = Len(ret.x)
    /\ (ret.x = DocExample =>
          /\ ret.unique = <<1, 2, 3, 4>>
          /\ ret.groups = <<(<<0, 4>>), (<<3, 5>>), (<<2, 6, 7>>), (<<1, 8>>)>>)

GroupIndicesWitness ==
  /\ ret.op = "group_indices"
  /\ ~ret.as_mask
  /\ ret.x = <<3, 1, 3, 1>>
  /\ ret.groups = <<(<<1, 3>>), (<<0, 2>>)>>

(***************************************************************************)
(* C2: for a non-empty list and every integer i, negative, in range or     *)
(* beyond the length, InfList(s)[i] returns s[i mod len(s)] and does not   *)
(* fail.                                                                   *)
(***************************************************************************)
GetItemWraps ==
  (ret.op = "getitem" /\ Len(data) > 0) =>
    /\ ret.err = ""
    /\ \E q \in (0 - MaxIdx - MaxNeg)..(MaxIdx + MaxNeg) :
       \E r \in 0..(Len(data) - 1) :
         /\ ret.i = q * Len(data) + r
         /\ ret.val = data[r + 1]

GetItemWitness ==
  /\ ret.op = "getitem"
  /\ data = <<"a", "b", "c">>
  /\ ret.i = 0 - 1
  /\ ret.val = "c"

GetItemBeyondWitness ==
  /\ ret.op = "getitem"
  /\ data = <<"a", "b", "c">>
  /\ ret.i = 7
  /\ ret.val = "b"

(***************************************************************************)
(* C3 as stated: slicing a non-empty InfList of length n with (start,      *)
(* stop, step) returns a plain list whose k-th element is data[j_k mod n], *)
(* j_k being the k-th of start, start + step, ... below stop.              *)
(***************************************************************************)
\* The requested absolute indices start, start + step, ... below stop
RequestedRange(start, stop, step) ==
  PyRange(IF IsNone(start) THEN 0 ELSE start.v, stop.v,
          IF IsNone(step) THEN 1 ELSE step.v)

SliceCase ==
  /\ ret.op = "getslice"
  /\ Len(data) > 0
  /\ ~IsNone(ret.stop)
  /\ (IsNone(ret.step) \/ ret.step.v >= 1)

SliceIsRequestedRange ==
  SliceCase =>
    LET js == RequestedRange(ret.start, ret.stop, ret.step)
    IN /\ ret.err = ""
       /\ ret.cls = "list"
       /\ Len(ret.val) = Len(js)
       /\ \A k \in 1..Len(js) : ret.val[k] = data[(js[k] % Len(data)) + 1]

(***************************************************************************)
(* C3 as amended: the same, for a start that is omitted or >= 0; a         *)
(* negative start counts back from stop (first index max(stop + start, 0)  *)
(* for stop >= 0).  Length 3 with stop = 7 yields 7 elements.              *)
(***************************************************************************)
SliceFromStopRelativeStart ==
  SliceCase =>
    LET first == IF IsNone(ret.start) THEN 0
                 ELSE IF ret.start.v >= 0 THEN ret.start.v
                 ELSE Max(Max(ret.stop.v, 0) + ret.start.v, 0)
        js == PyRange(first, ret.stop.v,
                      IF IsNone(ret.step) THEN 1 ELSE ret.step.v)
    IN /\ ret.err = ""
       /\ ret.cls = "list"
       /\ Len(ret.val) = Len(js)
       /\ \A k \in 1..Len(js) : ret.val[k] = data[(js[k] % Len(data)) + 1]
       /\ ((Len(data) = 3 /\ IsNone(ret.start) /\ IsNone(ret.step)
            /\ ret.stop = PyInt(7)) => Len(ret.val) = 7)

SliceWrapsTwiceWitness ==
  /\ ret.op = "getslice"
  /\ data = <<"a", "b", "c">>
  /\ ret.start = PyNone /\ ret.stop = PyInt(7) /\ ret.step = PyNone
  /\ ret.val = <<"a", "b", "c", "a", "b", "c", "a">>

SliceNegativeStartWitness ==
  /\ ret.op = "getslice"
  /\ data = <<"a", "b", "c">>
  /\ ret.start = PyInt(0 - 2) /\ ret.stop = PyInt(7) /\ ret.step = PyNone
  /\ ret.val = <<"c", "a">>

(***************************************************************************)
(* C4 as stated: constructing an InfList from an empty sequence, or        *)
(* indexing an empty InfList at any integer, fails with the dedicated      *)
(* empty-sequence error.                                                   *)
(***************************************************************************)
EmptyFailsWithEmptySequenceError ==
  /\ (ret.op = "InfList" /\ Len(ret.initlist) = 0) =>
       ret.err = "EmptySequenceError"
  /\ (ret.op = "getitem" /\ Len(data) = 0) => ret.err = "EmptySequenceError"

(***************************************************************************)
(* C4 as amended: constructing an InfList from an empty sequence succeeds  *)
(* and yields an empty list; indexing an empty InfList at any integer      *)
(* fails with the ZeroDivisionError of the modulo and returns no value.    *)
(***************************************************************************)
EmptyConstructsAndIndexFails ==
  /\ (ret.op = "InfList" /\ Len(ret.initlist) = 0) =>
       (ret.err = "" /\ data = <<>>)
  /\ (ret.op = "getitem" /\ Len(data) = 0) => ret.err = "ZeroDivisionError"

EmptyIndexWitness ==
  /\ ret.op = "getitem"
  /\ data = <<>>
  /\ ret.i = 2
  /\ ret.err = "ZeroDivisionError"

EmptyConstructWitness ==
  ret.op = "InfList" /\ ret.initlist = <<>> /\ ret.err = "" /\ data = <<>>

(***************************************************************************)
(* C5: there_can_be_only_one returns the single truthy argument when       *)
(* exactly one argument is truthy and fails otherwise, the call without    *)
(* arguments included; (None, 5, None) returns 5 and (5, 6) fails.         *)
(***************************************************************************)
OnlyOneCorrect ==
  ret.op = "there_can_be_only_one" =>
    LET truthy == {k \in 1..Len(ret.args) : Truthy(ret.args[k])}
    IN /\ (Cardinality(truthy) = 1 =>
             /\ ret.err = ""
             /\ \A k \in truthy : ret.val = ret.args[k])
       /\ (Cardinality(truthy) # 1 => ret.err # "")
       /\ (ret.args = <<PyNone, PyInt(5), PyNone>> => ret.val = PyInt(5))
       /\ (ret.args = <<PyInt(5), PyInt(6)>> => ret.err # "")
       /\ (ret.args = <<>> => ret.err # "")

OnlyOneWitness ==
  /\ ret.op = "there_can_be_only_one"
  /\ ret.args = <<PyNone, PyInt(5), PyInt(0)>>
  /\ ret.err = ""
  /\ ret.val = PyInt(5)

OnlyOneNoArgsWitness ==
  ret.op = "there_can_be_only_one" /\ ret.args = <<>> /\ ret.err = "ValueError"

(***************************************************************************)
(* C6: there_should_be_at_least_one fails when every argument is None and  *)
(* does not fail when at least one argument is not None.                   *)
(***************************************************************************)
AtLeastOneAsDocumented ==
  ret.op = "there_should_be_at_least_one" =>
    (ret.err # "" <=> \A k \in 1..Len(ret.args) : IsNone(ret.args[k]))

(***************************************************************************)
(* C7: Palette(d_pal, c_pal, pal) fails when all three are None, and for   *)
(* every combination in which at least one is supplied it succeeds and     *)
(* the Palette carries both a discrete and a continuous view.  Stated for  *)
(* well-formed arguments: hex strings in pal, and 1 <= d_n <= c_n - 1 when *)
(* the discrete view is derived from c_pal.                                *)
(***************************************************************************)
Supplied(arg) == arg.type # "NoneType"

WellFormedArgs ==
  /\ \A k \in 1..Len(ret.pal.data) :
       ret.pal.data[k].kind = "str" => IsHexColor(ret.pal.data[k].chars)
  /\ (Supplied(ret.c_pal) /\ ~Supplied(ret.d_pal) /\ ~Supplied(ret.pal)) =>
       ret.d_n <= ret.c_pal.n - 1

PaletteNeedsAtLeastOne ==
  (ret.op = "Palette" /\ WellFormedArgs) =>
    IF ~Supplied(ret.d_pal) /\ ~Supplied(ret.c_pal) /\ ~Supplied(ret.pal)
    THEN ret.err # "" /\ ~palette.built
    ELSE /\ ret.err = ""
         /\ palette.built
         /\ Supplied(palette.d_pal)
         /\ Supplied(palette.c_pal)

(***************************************************************************)
(* C8: built from a continuous palette of length c_n only, the discrete    *)
(* palette holds d_n colours, those at indices 0, step, 2*step, ... with   *)
(* step = (c_n - 1) // d_n: exactly d_n elements for 1 <= d_n <= c_n - 1,  *)
(* 12 for the defaults c_n = 256 and d_n = 12.                             *)
(***************************************************************************)
RampSampledDnTimes ==
  (/\ ret.op = "Palette"
   /\ Supplied(ret.c_pal) /\ ~Supplied(ret.d_pal) /\ ~Supplied(ret.pal)
   /\ ret.d_n <= ret.c_pal.n - 1) =>
    LET step == (ret.c_pal.n - 1) \div ret.d_n
    IN /\ ret.err = ""
       /\ palette.built
       /\ Len(palette.d_pal.data) = ret.d_n
       /\ \A k \in 1..ret.d_n :
            palette.d_pal.data[k] = ColorAt(palette.c_pal, (k - 1) * step)

(***************************************************************************)
(* C9: Palette.__call__(hue, force_discrete) returns one colour per hue    *)
(* element: from the continuous palette when hue is floating-point and     *)
(* force_discrete is false, otherwise from the discrete palette at index   *)
(* h modulo its length, wrapping instead of failing.                       *)
(***************************************************************************)
HueMapsCyclically ==
  ret.op = "Palette.__call__" =>
    /\ ret.err = ""
    /\ Len(ret.val) = Len(ret.hue.vals)
    /\ ret.view = (IF ret.hue.kind = "f" /\ ~ret.force_discrete
                   THEN "continuous" ELSE "discrete")
    /\ (ret.view = "discrete" /\ ret.hue.kind = "i") =>
         \A k \in 1..Len(ret.val) :
           ret.val[k] =
             palette.d_pal.data[(ret.hue.vals[k] % Len(palette.d_pal.data)) + 1]

(***************************************************************************)
(* C10: in every constructed Palette the discrete view is a cyclic         *)
(* DiscretePalette whose elements are strings of '#' and 3 or 6 hex        *)
(* digits; a string colour outside the hex grammar makes construction      *)
(* fail instead of being stored.                                           *)
(***************************************************************************)
HexString(c) ==
  /\ c.kind = "str"
  /\ Len(c.chars) \in {4, 7}
  /\ c.chars[1] = "#"
  /\ \A k \in 2..Len(c.chars) : c.chars[k] \in HexDigits

DiscreteViewIsCyclicHex ==
  /\ palette.built =>
       /\ palette.d_pal.type = "DiscretePalette"
       /\ \A k \in 1..Len(palette.d_pal.data) : HexString(palette.d_pal.data[k])
  /\ (/\ ret.op = "Palette"
      /\ \E k \in 1..Len(ret.d_pal.data) :
           ret.d_pal.data[k].kind = "str" /\ ~HexString(ret.d_pal.data[k])) =>
       ret.err # ""
  /\ (/\ ret.op = "Palette"
      /\ ~Supplied(ret.d_pal)
      /\ \E k \in 1..Len(ret.pal.data) :
           ret.pal.data[k].kind = "str" /\ ~HexString(ret.pal.data[k])) =>
       ret.err # ""

(***************************************************************************)
(* _params.py: FontSize, Despine and Legend validators                     *)
(* An argument is a record of its Python type and its payload: `keys` are  *)
(* the keys of a mapping (each mapped to the payload value), or the true   *)
(* sides of a Despine.                                                     *)
(***************************************************************************)
MaxStr == 2        \* longest despine string
MaxLabels == 6     \* most legend entries on an axis

DefaultFontSize == 11

DefaultThresh == 5

FontSizeFields ==
  {"title", "xlabel", "ylabel", "xticklabels", "yticklabels", "legend"}

DespineFields == {"top", "left", "bottom", "right"}

\* Despine defaults=(True, False, False, True)
DespineDefault(f) == f \in {"top", "right"}

\* A record built from a mapping whatever its keys
NoUnexpectedKeys(keys, fields) == {}

\* The keys of the mapping that are not parameters of the record
UnexpectedKeys(keys, fields) == keys \ fields

NoRecord == [f \in {} |-> 0]

FontSizeArgs ==
  {[type |-> t, keys |-> {}, num |-> n] :
     t \in {"FontSize", "int", "float", "bool", "str", "NoneType", "Despine", "list"},
     n \in {8, 11}}
  \cup {[type |-> "dict", keys |-> ks, num |-> 8] :
          ks \in SUBSET (FontSizeFields \cup {"annotation"})}

validate_font_size(font_size) ==
  IF font_size.type = "FontSize"
  THEN [err |-> "", named |-> "", val |-> [f \in FontSizeFields |-> font_size.num]]
  ELSE IF font_size.type = "dict"
  THEN IF UnexpectedKeys(font_size.keys, FontSizeFields) # {}
       THEN [err |-> "TypeError", named |-> "", val |-> NoRecord]
       ELSE [err |-> "", named |-> "",
             val |-> [f \in FontSizeFields |->
                        IF f \in font_size.keys THEN font_size.num
                        ELSE DefaultFontSize]]
  ELSE IF font_size.type \in {"float", "int", "bool"}
  THEN [err |-> "", named |-> "", val |-> [f \in FontSizeFields |-> font_size.num]]
  ELSE [err |-> "ValueError", named |-> font_size.type, val |-> NoRecord]

DespineStrings == SeqsUpTo({"t", "l", "b", "r", "x"}, MaxStr)

DespineArgs ==
  {[type |-> "Despine", keys |-> ks, flag |-> TRUE, chars |-> <<>>] :
     ks \in SUBSET DespineFields}
  \cup {[type |-> "dict", keys |-> ks, flag |-> b, chars |-> <<>>] :
          ks \in SUBSET (DespineFields \cup {"offset"}), b \in BOOLEAN}
  \cup {[type |-> "bool", keys |-> {}, flag |-> b, chars |-> <<>>] : b \in BOOLEAN}
  \cup {[type |-> "str", keys |-> {}, flag |-> TRUE, chars |-> cs] :
          cs \in DespineStrings}
  \cup {[type |-> t, keys |-> {}, flag |-> TRUE, chars |-> <<>>] :
          t \in {"int", "NoneType", "FontSize", "list"}}

\* ch in despine
Contains(chars, ch) == \E k \in 1..Len(chars) : chars[k] = ch

\* The spines named by a string are kept and the others removed
DespineFromStrInverted(chars) ==
  [f \in DespineFields |->
     ~Contains(chars, CASE f = "top" -> "t" [] f = "left" -> "l"
                        [] f = "bottom" -> "b" [] OTHER -> "r")]

\* Despine(top='t' in despine, left='l' in despine, ...)
DespineFromStr(chars) ==
  [f \in DespineFields |->
     Contains(chars, CASE f = "top" -> "t" [] f = "left" -> "l"
                       [] f = "bottom" -> "b" [] OTHER -> "r")]

validate_despine(despine) ==
  IF despine.type = "Despine"
  THEN [err |-> "", named |-> "",
        val |-> [f \in DespineFields |-> f \in despine.keys]]
  ELSE IF despine.type = "dict"
  THEN IF UnexpectedKeys(despine.keys, DespineFields) # {}
       THEN [err |-> "TypeError", named |-> "", val |-> NoRecord]
       ELSE [err |-> "", named |-> "",
             val |-> [f \in DespineFields |->
                        IF f \in despine.keys THEN despine.flag
                        ELSE DespineDefault(f)]]
  ELSE IF despine.type = "bool"
  THEN [err |-> "", named |-> "",
        val |-> [f \in DespineFields |-> despine.flag]]
  ELSE IF despine.type = "str"
  THEN [err |-> "", named |-> "", val |-> DespineFromStr(despine.chars)]
  ELSE [err |-> "ValueError", named |-> despine.type, val |-> NoRecord]

ValidateFontSize ==
  \E font_size \in FontSizeArgs :
    LET r == validate_font_size(font_size)
    IN /\ ret = NoCall
       /\ ret' = [op |-> "validate_font_size", arg |-> font_size,
                  err |-> r.err, named |-> r.named, val |-> r.val]
       /\ UNCHANGED <<data, palette, queue>>

ValidateDespine ==
  \E despine \in DespineArgs :
    LET r == validate_despine(despine)
    IN /\ ret = NoCall
       /\ ret' = [op |-> "validate_despine", arg |-> despine,
                  err |-> r.err, named |-> r.named, val |-> r.val]
       /\ UNCHANGED <<data, palette, queue>>

(***************************************************************************)
(* _params.py: Legend.  `outside` is "True", "False" or "auto"; kwargs are *)
(* modelled by their key set.                                              *)
(***************************************************************************)
Directional == {"r", "l", "b", "t"}

Locs == Directional \cup {"best", "upper left"}

Outsides == {"True", "False", "auto"}

Threshes == {2, DefaultThresh}

KwargSets == {{}, {"loc"}, {"title"}, {"loc", "frameon"}}

LegendInitFields == {"loc", "outside", "auto_thresh", "kwargs"}

\* Only a literal True counts as asking for an outside legend
OutsideIsTrue(outside) == outside = "True"

\* bool(outside): the non-empty string 'auto' is true
OutsideTruthy(outside) == outside # "False"

\* cov.get(self.loc, self.loc)
LocPlt(loc) ==
  CASE loc = "r" -> "center right"
    [] loc = "l" -> "center left"
    [] loc = "b" -> "lower center"
    [] loc = "t" -> "upper center"
    [] OTHER -> loc

NoLegend ==
  [loc |-> "", outside |-> "", auto_thresh |-> 0, kwargs |-> {}, loc_plt |-> ""]

\* Legend(loc, outside, auto_thresh, kwargs) with __post_init__
LegendNew(loc, outside, auto_thresh, kwargs) ==
  IF OutsideTruthy(outside) /\ loc \notin Directional
  THEN [err |-> "ValueError", named |-> "", val |-> NoLegend]
  ELSE [err |-> "", named |-> "",
        val |-> [loc |-> loc, outside |-> outside, auto_thresh |-> auto_thresh,
                 kwargs |-> (kwargs \ {"loc"}) \cup {"frameon"},
                 loc_plt |-> LocPlt(loc)]]

\* Legend()
DefaultLegend == LegendNew("r", "auto", DefaultThresh, {})

\* The Legend objects that exist
Legends ==
  {LegendNew(l, o, t, k).val : l \in Locs, o \in Outsides, t \in Threshes,
                               k \in KwargSets} \ {NoLegend}

LegendArgs ==
  {[type |-> "Legend", keys |-> {}, loc |-> g.loc, outside |-> g.outside,
    auto_thresh |-> g.auto_thresh, kwargs |-> g.kwargs, loc_plt |-> g.loc_plt] :
     g \in Legends}
  \cup {[type |-> "dict", keys |-> ks, loc |-> l, outside |-> o,
         auto_thresh |-> 2, kwargs |-> {"title"}, loc_plt |-> ""] :
          ks \in SUBSET (LegendInitFields \cup {"loc_plt", "title"}),
          l \in {"l", "best"}, o \in Outsides}
  \cup {[type |-> t, keys |-> {}, loc |-> "", outside |-> "", auto_thresh |-> 0,
         kwargs |-> {}, loc_plt |-> ""] :
          t \in {"NoneType", "str", "bool", "int", "list", "FontSize"}}

validate_legend(legend) ==
  IF legend.type = "NoneType"
  THEN DefaultLegend
  ELSE IF legend.type = "dict"
  THEN IF UnexpectedKeys(legend.keys, LegendInitFields) # {}
       THEN [err |-> "TypeError", named |-> "", val |-> NoLegend]
       ELSE LegendNew(IF "loc" \in legend.keys THEN legend.loc ELSE "r",
                      IF "outside" \in legend.keys THEN legend.outside ELSE "auto",
                      IF "auto_thresh" \in legend.keys THEN legend.auto_thresh
                      ELSE DefaultThresh,
                      IF "kwargs" \in legend.keys THEN legend.kwargs ELSE {})
  ELSE IF legend.type = "Legend"
  THEN [err |-> "", named |-> "",
        val |-> [loc |-> legend.loc, outside |-> legend.outside,
                 auto_thresh |-> legend.auto_thresh, kwargs |-> legend.kwargs,
                 loc_plt |-> legend.loc_plt]]
  ELSE [err |-> "ValueError", named |-> legend.type, val |-> NoLegend]

ValidateLegend ==
  \E legend \in LegendArgs :
    LET r == validate_legend(legend)
    IN /\ ret = NoCall
       /\ ret' = [op |-> "validate_legend", arg |-> legend,
                  err |-> r.err, named |-> r.named, val |-> r.val]
       /\ UNCHANGED <<data, palette, queue>>

LegendInit ==
  \E loc \in Locs, outside \in Outsides, auto_thresh \in Threshes,
     kwargs \in KwargSets :
    LET r == LegendNew(loc, outside, auto_thresh, kwargs)
    IN /\ ret = NoCall
       /\ ret' = [op |-> "Legend", loc |-> loc, outside |-> outside,
                  auto_thresh |-> auto_thresh, kwargs |-> kwargs,
                  err |-> r.err, val |-> r.val]
       /\ UNCHANGED <<data, palette, queue>>

NextParams ==
  \/ ValidateFontSize
  \/ ValidateDespine
  \/ ValidateLegend
  \/ LegendInit
  \/ Return

SpecParams == Init /\ [][NextParams]_vars

\* The shapes each validator is documented to accept
AcceptedShapes(op) ==
  CASE op = "validate_font_size" -> {"FontSize", "dict", "int", "float", "bool"}
    [] op = "validate_despine" -> {"Despine", "dict", "bool", "str"}
    [] OTHER -> {"Legend", "dict"}

TargetFields(op) ==
  CASE op = "validate_font_size" -> FontSizeFields
    [] op = "validate_despine" -> DespineFields
    [] OTHER -> LegendInitFields

IsValidate == ret.op \in {"validate_font_size", "validate_despine", "validate_legend"}

\* C11 as stated: a validator fails on a mapping with a key that is not a
\* field of the target record, and on every input outside the accepted
\* shapes (typed record, mapping, scalar for FontSize, bool or string for
\* Despine) it fails with an error naming the offending type.
ValidatorsRejectUnrecognized ==
  IsValidate =>
    /\ (ret.arg.type = "dict" /\ ~(ret.arg.keys \subseteq TargetFields(ret.op))
          => ret.err # "")
    /\ (ret.arg.type \notin AcceptedShapes(ret.op)
          => ret.err = "ValueError" /\ ret.named = ret.arg.type)

\* C11 amended: as above, except that validate_legend also accepts None
\* and returns the default Legend for it.
ValidatorsRejectUnrecognizedButNone ==
  IsValidate =>
    /\ (ret.arg.type = "dict" /\ ~(ret.arg.keys \subseteq TargetFields(ret.op))
          => ret.err # "" /\ ret.val \in {NoRecord, NoLegend})
    /\ (ret.arg.type \notin AcceptedShapes(ret.op)
          /\ ~(ret.op = "validate_legend" /\ ret.arg.type = "NoneType")
          => /\ ret.err = "ValueError"
             /\ ret.named = ret.arg.type
             /\ ret.val \in {NoRecord, NoLegend})
    /\ (ret.op = "validate_legend" /\ ret.arg.type = "NoneType"
          => ret.err = "" /\ ret.val = DefaultLegend.val)

UnknownKeyWitness ==
  /\ ret.op = "validate_despine"
  /\ ret.arg.type = "dict"
  /\ ret.arg.keys = {"top", "offset"}
  /\ ret.err = "TypeError"

UnrecognizedTypeWitness ==
  /\ ret.op = "validate_font_size"
  /\ ret.arg.type = "str"
  /\ ret.err = "ValueError"
  /\ ret.named = "str"

LegendNoneWitness ==
  /\ ret.op = "validate_legend"
  /\ ret.arg.type = "NoneType"
  /\ ret.err = ""
  /\ ret.val.loc_plt = "center right"

\* C13 as stated: constructing a Legend fails exactly when outside is True
\* and loc is not one of 'r', 'l', 't', 'b'; with outside False or 'auto'
\* any loc is constructed, and loc_plt is the backend location of a
\* directional code and loc itself otherwise.
LegendFailsOnlyForOutsideTrue ==
  ret.op = "Legend" =>
    /\ ret.err # "" <=> (ret.outside = "True" /\ ret.loc \notin {"r", "l", "t", "b"})
    /\ ret.err = "" =>
         ret.val.loc_plt =
           (CASE ret.loc = "r" -> "center right" [] ret.loc = "l" -> "center left"
              [] ret.loc = "b" -> "lower center" [] ret.loc = "t" -> "upper center"
              [] OTHER -> ret.loc)

\* C13 amended: constructing a Legend fails, with a ValueError, exactly when
\* outside is True or 'auto' and loc is not one of 'r', 'l', 't', 'b'; a
\* Legend that is constructed keeps its arguments and has loc_plt equal to
\* the backend location of a directional code and to loc itself otherwise.
LegendFailsWhenOutsideTruthy ==
  ret.op = "Legend" =>
    /\ ret.err # "" <=> (ret.outside \in {"True", "auto"}
                           /\ ret.loc \notin {"r", "l", "t", "b"})
    /\ ret.err # "" => ret.err = "ValueError"
    /\ ret.err = "" =>
         /\ ret.val.loc = ret.loc
         /\ ret.val.outside = ret.outside
         /\ ret.val.auto_thresh = ret.auto_thresh
         /\ ret.val.loc_plt =
              (CASE ret.loc = "r" -> "center right" [] ret.loc = "l" -> "center left"
                 [] ret.loc = "b" -> "lower center" [] ret.loc = "t" -> "upper center"
                 [] OTHER -> ret.loc)

LegendAutoBestWitness ==
  /\ ret.op = "Legend"
  /\ ret.loc = "best"
  /\ ret.outside = "auto"
  /\ ret.err = "ValueError"

LegendBestInsideWitness ==
  /\ ret.op = "Legend"
  /\ ret.loc = "best"
  /\ ret.outside = "False"
  /\ ret.err = ""
  /\ ret.val.loc_plt = "best"

\* C15: validate_despine maps True to a Despine with all four sides set and
\* False to one with none set; a string gives the Despine whose top, left,
\* bottom, right flag is true exactly when the string contains 't', 'l',
\* 'b', 'r'; a Despine is returned unchanged.
DespineAsDocumented ==
  ret.op = "validate_despine" =>
    /\ ret.arg.type = "bool" =>
         /\ ret.err = ""
         /\ \A f \in {"top", "left", "bottom", "right"} : ret.val[f] = ret.arg.flag
    /\ ret.arg.type = "str" =>
         /\ ret.err = ""
         /\ ret.val.top = (\E k \in DOMAIN ret.arg.chars : ret.arg.chars[k] = "t")
         /\ ret.val.left = (\E k \in DOMAIN ret.arg.chars : ret.arg.chars[k] = "l")
         /\ ret.val.bottom = (\E k \in DOMAIN ret.arg.chars : ret.arg.chars[k] = "b")
         /\ ret.val.right = (\E k \in DOMAIN ret.arg.chars : ret.arg.chars[k] = "r")
    /\ ret.arg.type = "Despine" =>
         /\ ret.err = ""
         /\ \A f \in {"top", "left", "bottom", "right"} :
              ret.val[f] = (f \in ret.arg.keys)

DespineTrWitness ==
  /\ ret.op = "validate_despine"
  /\ ret.arg.type = "str"
  /\ ret.arg.chars = <<"t", "r">>
  /\ ret.val = [top |-> TRUE, left |-> FALSE, bottom |-> FALSE, right |-> TRUE]

DespineTrueWitness ==
  /\ ret.op = "validate_despine"
  /\ ret.arg.type = "bool"
  /\ ret.arg.flag
  /\ ret.val = [top |-> TRUE, left |-> TRUE, bottom |-> TRUE, right |-> TRUE]

(***************************************************************************)
(* _params.py: linestyle, marker and palette validators                    *)
(* An argument is [type, name, data]: `name` is the member name of an enum *)
(* member or the text of a string, `data` the items of a list or InfList.  *)
(***************************************************************************)
NoStyle == [type |-> "NoneType", data |-> <<>>]

\* linestyle.upper() for the strings of StyleArgs
Upper(name) ==
  CASE name = "none" -> "NONE"
    [] name = "duo" -> "DUO"
    [] name = "Trio" -> "TRIO"
    [] name = "dashed" -> "DASHED"
    [] OTHER -> name

\* The first members of LineStyle and their values
LineStyleMembers ==
  [NONE |-> NoStyle,
   DUO |-> [type |-> "InfList", data |-> <<"-", "--">>],
   TRIO |-> [type |-> "InfList", data |-> <<"-", "--", "-.">>]]

\* The first members of Marker and their values
MarkerMembers ==
  [NONE |-> NoStyle,
   DUO |-> [type |-> "InfList", data |-> <<"o", ">">>],
   TRIO |-> [type |-> "InfList", data |-> <<"o", ">", "s">>]]

StyleArgs ==
  {[type |-> "NoneType", name |-> "", data |-> <<>>],
   [type |-> "Enum", name |-> "NONE", data |-> <<>>],
   [type |-> "Enum", name |-> "DUO", data |-> <<>>],
   [type |-> "str", name |-> "Trio", data |-> <<>>],
   [type |-> "str", name |-> "dashed", data |-> <<>>],
   [type |-> "list", name |-> "", data |-> <<"a", "b">>],
   [type |-> "InfList", name |-> "", data |-> <<"c">>],
   [type |-> "int", name |-> "", data |-> <<>>]}

\* validate_linestyle and validate_marker, over the members of their enum
validate_style(style, members) ==
  IF style.type = "NoneType"
  THEN [err |-> "", named |-> "", val |-> NoStyle]
  ELSE IF style.type = "InfList"
  THEN [err |-> "", named |-> "",
        val |-> [type |-> "InfList", data |-> InfListNew(style.data).data]]
  ELSE IF style.type = "Enum"
  THEN [err |-> "", named |-> "", val |-> members[style.name]]
  ELSE IF style.type = "str"
  THEN IF Upper(style.name) \in DOMAIN members
       THEN [err |-> "", named |-> "", val |-> members[Upper(style.name)]]
       ELSE [err |-> "AttributeError", named |-> "", val |-> NoStyle]
  ELSE IF style.type = "list"
  THEN [err |-> "", named |-> "",
        val |-> [type |-> "InfList", data |-> InfListNew(style.data).data]]
  ELSE [err |-> "ValueError", named |-> style.type, val |-> NoStyle]

validate_linestyle(linestyle) == validate_style(linestyle, LineStyleMembers)

validate_marker(marker) == validate_style(marker, MarkerMembers)

\* A member of Cmap: Palette(d_pal=..., c_pal=...) of two named palettes
CmapValue ==
  PaletteNew([type |-> "DiscretePalette",
              data |-> DiscretePaletteNew(<<StrColor(<<"#", "F", "0", "0">>)>>).data],
             [type |-> "ContinuousPalette", anchors |-> RampAnchors, n |-> DefaultCN],
             NoneArg, DefaultDN, DefaultCN)

\* validate_palette for a Cmap member, a Palette or a list of colours
validate_palette(pal) ==
  IF pal.type = "Palette" THEN CmapValue
  ELSE IF pal.type = "Cmap" THEN CmapValue
  ELSE PaletteNew(pal, NoneCPal, NoneArg, DefaultDN, DefaultCN)

(***************************************************************************)
(* _colony.py: Colony                                                      *)
(***************************************************************************)
NoneFontSize == [type |-> "NoneType", keys |-> {}, num |-> 8]

StrDespine(chars) ==
  [type |-> "str", keys |-> {}, flag |-> TRUE, chars |-> chars]

NoneLegend ==
  [type |-> "NoneType", keys |-> {}, loc |-> "", outside |-> "",
   auto_thresh |-> 0, kwargs |-> {}, loc_plt |-> ""]

\* The default values of the keyword arguments of Colony.__init__
ColonyDefaults ==
  [font_size |-> NoneFontSize,
   despine |-> StrDespine(<<"t", "r">>),
   palette |-> [type |-> "Cmap", data |-> <<>>],
   legend |-> NoneLegend,
   linestyle |-> [type |-> "Enum", name |-> "NONE", data |-> <<>>],
   marker |-> [type |-> "Enum", name |-> "NONE", data |-> <<>>]]

ColonyArgs ==
  [font_size : {NoneFontSize,
                [type |-> "int", keys |-> {}, num |-> 11],
                [type |-> "dict", keys |-> {"title"}, num |-> 8],
                [type |-> "dict", keys |-> {"annotation"}, num |-> 8]},
   despine : {StrDespine(<<"t", "r">>),
              [type |-> "bool", keys |-> {}, flag |-> TRUE, chars |-> <<>>],
              [type |-> "NoneType", keys |-> {}, flag |-> TRUE, chars |-> <<>>]},
   palette : {[type |-> "Cmap", data |-> <<>>],
              [type |-> "Palette", data |-> <<>>],
              [type |-> "list", data |-> <<StrColor(<<"#", "F", "0", "0">>)>>]},
   legend : {NoneLegend,
             [type |-> "dict", keys |-> {"loc", "outside"}, loc |-> "best",
              outside |-> "auto", auto_thresh |-> 2, kwargs |-> {"title"},
              loc_plt |-> ""],
             [type |-> "str", keys |-> {}, loc |-> "", outside |-> "",
              auto_thresh |-> 0, kwargs |-> {}, loc_plt |-> ""]},
   linestyle : StyleArgs,
   marker : {[type |-> "Enum", name |-> "NONE", data |-> <<>>],
             [type |-> "str", name |-> "dashed", data |-> <<>>]}]

\* Colony.__init__ on the arguments a: the validators run in the order of __init__, the first
\* failure ends the construction
ColonyNew(a) ==
  LET f == validate_font_size(a.font_size)
      d == validate_despine(a.despine)
      p == validate_palette(a.palette)
      g == validate_legend(a.legend)
      s == validate_linestyle(a.linestyle)
      m == validate_marker(a.marker)
      fail(e, at) == [err |-> e, at |-> at, built |-> FALSE]
  IN IF f.err # "" THEN fail(f.err, "validate_font_size")
     ELSE IF d.err # "" THEN fail(d.err, "validate_despine")
     ELSE IF p.err # "" THEN fail(p.err, "validate_palette")
     ELSE IF g.err # "" THEN fail(g.err, "validate_legend")
     ELSE IF s.err # "" THEN fail(s.err, "validate_linestyle")
     ELSE IF m.err # "" THEN fail(m.err, "validate_marker")
     ELSE [err |-> "", at |-> "", built |-> TRUE, font_size |-> f.val,
           despine |-> d.val, palette |-> p, legend |-> g.val,
           linestyle |-> s.val, marker |-> m.val]

\* n_labels > legend.auto_thresh
AutoOutsideStrict(n_labels, auto_thresh) == n_labels > auto_thresh

\* True if n_labels >= legend.auto_thresh else False
AutoOutside(n_labels, auto_thresh) == n_labels >= auto_thresh

\* Colony.add_legend for the legend in force and an axis with n_labels
\* labelled artists: the keyword arguments handed to ax.legend
add_legend(legend, n_labels) ==
  LET outside == IF legend.outside = "auto"
                 THEN AutoOutside(n_labels, legend.auto_thresh)
                 ELSE OutsideTruthy(legend.outside)
      pdict == [r |-> "center left", l |-> "center right",
                t |-> "lower center", b |-> "upper center"]
  IN IF n_labels = 0
     THEN [err |-> "", drawn |-> FALSE, outside |-> FALSE, loc |-> "", kwargs |-> {}]
     ELSE IF ~outside
     THEN [err |-> "", drawn |-> TRUE, outside |-> FALSE, loc |-> legend.loc_plt,
           kwargs |-> legend.kwargs \cup {"prop", "loc"}]
     ELSE IF legend.loc \notin DOMAIN pdict
     THEN [err |-> "KeyError", drawn |-> FALSE, outside |-> TRUE, loc |-> "",
           kwargs |-> {}]
     ELSE [err |-> "", drawn |-> TRUE, outside |-> TRUE, loc |-> pdict[legend.loc],
           kwargs |-> legend.kwargs \cup {"prop", "loc", "bbox_to_anchor"}
                        \cup (IF legend.loc \in {"t", "b"} THEN {"ncol"} ELSE {})]

\* self.legend of the colonies add_legend is called on
SelfLegends == {DefaultLegend.val, LegendNew("t", "False", 2, {}).val}

ColonyInit ==
  \E a \in ColonyArgs :
    LET c == ColonyNew(a)
    IN /\ ret = NoCall
       /\ ret' = [op |-> "Colony", args |-> a, err |-> c.err, at |-> c.at,
                  val |-> c]
       /\ UNCHANGED <<data, palette, queue>>

AddLegend ==
  \E self_legend \in SelfLegends, legend \in {NoLegend} \cup Legends,
     n_labels \in 0..MaxLabels :
    LET used == IF legend = NoLegend THEN self_legend ELSE legend
        r == add_legend(used, n_labels)
    IN /\ ret = NoCall
       /\ ret' = [op |-> "add_legend", legend |-> used, n_labels |-> n_labels,
                  err |-> r.err, drawn |-> r.drawn, outside |-> r.outside,
                  loc |-> r.loc, kwargs |-> r.kwargs]
       /\ UNCHANGED <<data, palette, queue>>

NextColony ==
  \/ ColonyInit
  \/ AddLegend
  \/ Return

SpecColony == Init /\ [][NextColony]_vars

\* C12: a legend with outside='auto' added to an axis with n >= 1 entries
\* is placed outside the axis exactly when n >= auto_thresh; with outside
\* True or False the placement follows that value whatever n is.
AutoLegendPlacement ==
  ret.op = "add_legend" /\ ret.n_labels >= 1 =>
    /\ ret.err = ""
    /\ ret.drawn
    /\ ret.legend.outside = "auto" =>
         (ret.outside <=> ret.n_labels >= ret.legend.auto_thresh)
    /\ ret.legend.outside = "True" => ret.outside
    /\ ret.legend.outside = "False" => ~ret.outside
    /\ ret.outside <=> "bbox_to_anchor" \in ret.kwargs
    /\ ~ret.outside => ret.loc = ret.legend.loc_plt

AutoLegendSixWitness ==
  /\ ret.op = "add_legend"
  /\ ret.legend.outside = "auto"
  /\ ret.legend.auto_thresh = 5
  /\ ret.legend.loc = "r"
  /\ ret.n_labels = 6
  /\ ret.outside

AutoLegendFourWitness ==
  /\ ret.op = "add_legend"
  /\ ret.legend.outside = "auto"
  /\ ret.legend.auto_thresh = 5
  /\ ret.n_labels = 4
  /\ ~ret.outside

AutoLegendAtThreshWitness ==
  /\ ret.op = "add_legend"
  /\ ret.legend.outside = "auto"
  /\ ret.legend.auto_thresh = 5
  /\ ret.n_labels = 5
  /\ ret.outside

\* C19: constructing a Colony with the default value of every argument
\* completes without error and yields a validated configuration.
ColonyDefaultsAccepted ==
  ret.op = "Colony" /\ ret.args = ColonyDefaults =>
    /\ ret.err = ""
    /\ ret.val.built

(***************************************************************************)
(* functional/_line.py and the helpers of _bubbles.py it calls             *)
(* A style argument is [type, data]; a call of a helper is the sequence of *)
(* its positional arguments and the values of its keyword arguments.       *)
(***************************************************************************)
MaxLines == 3      \* most lines already on the axis
MaxSeries == 2     \* most series of a 2-D plot

LineStyleArgs ==
  {NoStyle,
   [type |-> "str", data |-> <<"-">>],
   [type |-> "InfList", data |-> <<"-", "--">>],
   [type |-> "list", data |-> <<"-", ":">>]}

LineColorArgs ==
  {[type |-> "NoneType", pal |-> CmapValue],
   [type |-> "str", pal |-> CmapValue],
   [type |-> "Palette", pal |-> CmapValue],
   [type |-> "Palette",
    pal |-> validate_palette([type |-> "list",
                              data |-> <<StrColor(<<"#", "F", "0", "0">>)>>])]}

OneItem(item) == [type |-> "str", data |-> <<item>>]

\* x[idx] for x an InfList, a list or a string
StyleGetItem(x, idx) ==
  IF x.type = "InfList"
  THEN LET r == InfListGetItem(x.data, idx)
       IN [err |-> r.err, val |-> OneItem(r.val)]
  ELSE IF idx >= Len(x.data) \/ idx < 0 - Len(x.data)
  THEN [err |-> "IndexError", val |-> NoStyle]
  ELSE [err |-> "", val |-> OneItem(x.data[(IF idx < 0 THEN idx + Len(x.data)
                                                       ELSE idx) + 1])]

\* default_index(x, *, expected_type=None, idx=0): one positional parameter
default_index(positional, expected_type, idx) ==
  IF Len(positional) # 1
  THEN [err |-> "TypeError", val |-> NoStyle]
  ELSE LET x == positional[1]
       IN IF expected_type # "None"
          THEN IF x.type = expected_type THEN StyleGetItem(x, idx)
               ELSE [err |-> "", val |-> x]
          ELSE IF x.type \in {"InfList", "list", "str"} THEN StyleGetItem(x, idx)
               ELSE [err |-> "", val |-> x]

\* default_range(x, *, expected_type, n): one positional parameter and two
\* required keywords ("missing" when not passed)
default_range(positional, expected_type, n) ==
  IF Len(positional) # 1 \/ expected_type = "missing"
  THEN [err |-> "TypeError", val |-> NoStyle]
  ELSE LET x == positional[1]
       IN IF x.type = expected_type
          THEN IF n > 0 /\ Len(x.data) = 0
               THEN [err |-> "ZeroDivisionError", val |-> NoStyle]
               ELSE [err |-> "",
                     val |-> [type |-> "list",
                              data |-> [j \in 1..n |->
                                          InfListGetItem(x.data, j - 1).val]]]
          ELSE [err |-> "", val |-> x]

\* The j-th item zip_longest draws from default(v): None past the end
SeriesItem(v, j) ==
  IF v.type = "list" /\ j <= Len(v.data) THEN OneItem(v.data[j]) ELSE NoStyle

\* consistent_length over the arguments that are not None
consistent_length(lens) ==
  IF \E a \in lens, b \in lens : a # b THEN "ValueError" ELSE ""

NoLine == [color |-> NoStyle, linestyle |-> NoStyle, marker |-> NoStyle]

\* _line_plot on an axis that already holds `lines` lines: the colour,
\* linestyle and marker handed to ax.plot
_line_plot(lines, color, linestyle, marker) ==
  LET c == IF color.type = "Palette"
           THEN DPalGetItem(color.pal.d_pal, "i", lines)
           ELSE [err |-> "", val |-> color]
      ls == default_index(<<linestyle, "InfList", lines>>, "None", 0)
      mk == default_index(<<marker, "InfList", lines>>, "None", 0)
  IN IF c.err # "" THEN [err |-> c.err, line |-> NoLine]
     ELSE IF ls.err # "" THEN [err |-> ls.err, line |-> NoLine]
     ELSE IF mk.err # "" THEN [err |-> mk.err, line |-> NoLine]
     ELSE [err |-> "", line |-> [color |-> c.val, linestyle |-> ls.val,
                                marker |-> mk.val]]

\* line_plot for n series on an axis holding `lines` lines: the lines drawn
line_plot(ndim, n, lines, color, linestyle, marker) ==
  LET fail(e) == [err |-> e, drawn |-> <<>>]
  IN IF ndim \notin {1, 2} THEN fail("ValueError")
     ELSE IF ndim > 1 /\ "str" \in {color.type, linestyle.type, marker.type}
     THEN fail("ValueError")
     ELSE IF ndim = 1
     THEN LET r == _line_plot(lines, color, linestyle, marker)
          IN IF r.err # "" THEN fail(r.err)
             ELSE [err |-> "", drawn |-> <<r.line>>]
     ELSE LET cs == IF color.type = "Palette"
                    THEN PaletteCallResult(color.pal,
                           [kind |-> "i", vals |-> [j \in 1..n |-> j - 1]], FALSE)
                    ELSE [err |-> "", view |-> "", val |-> <<>>]
              ls == default_range(<<linestyle, "InfList", n>>, "missing", 0)
              mk == default_range(<<marker, "InfList", n>>, "missing", 0)
          IN IF cs.err # "" THEN fail(cs.err)
             ELSE IF ls.err # "" THEN fail(ls.err)
             ELSE IF mk.err # "" THEN fail(mk.err)
             ELSE LET lens == {n} \cup (IF color.type = "Palette" THEN {Len(cs.val)}
                                         ELSE {})
                                 \cup {Len(v.data) : v \in {w \in {ls.val, mk.val} :
                                                               w.type = "list"}}
                      each == [j \in 1..n |->
                                 _line_plot(lines + j - 1,
                                            IF color.type = "Palette"
                                            THEN [type |-> "str", pal |-> color.pal]
                                            ELSE color,
                                            SeriesItem(ls.val, j),
                                            SeriesItem(mk.val, j))]
                      bad == {j \in 1..n : each[j].err # ""}
                  IN IF consistent_length(lens) # "" THEN fail("ValueError")
                     ELSE IF bad # {}
                     THEN fail(each[CHOOSE j \in bad : \A i \in bad : j <= i].err)
                     ELSE [err |-> "", drawn |-> [j \in 1..n |-> each[j].line]]

LinePlot ==
  \E ndim \in 1..3, n \in 1..MaxSeries, lines \in 0..MaxLines,
     color \in LineColorArgs, linestyle \in LineStyleArgs,
     marker \in LineStyleArgs :
    LET r == line_plot(ndim, n, lines, color, linestyle, marker)
    IN /\ ret = NoCall
       /\ ret' = [op |-> "line_plot", ndim |-> ndim, n |-> n, lines |-> lines,
                  color |-> color, linestyle |-> linestyle, marker |-> marker,
                  err |-> r.err, drawn |-> r.drawn]
       /\ UNCHANGED <<data, palette, queue>>

NextLine ==
  \/ LinePlot
  \/ Return

SpecLine == Init /\ [][NextLine]_vars

\* The style a cyclic list gives at position k, a plain value unchanged
CyclicStyle(style, k) ==
  IF style.type = "InfList"
  THEN [type |-> "str", data |-> <<style.data[(k % Len(style.data)) + 1]>>]
  ELSE style

\* C14: the line drawn when k lines are already on the axis gets colour
\* palette.d_pal[k], linestyle linestyle[k] and marker marker[k] when these
\* are a Palette or a cyclic list, wrapping around, and a plain value
\* unchanged; in 2-D mode the j-th of n series gets index j of each.
LineStylesCycle ==
  ret.op = "line_plot" =>
    /\ ret.ndim = 1 =>
         /\ ret.err = ""
         /\ Len(ret.drawn) = 1
         /\ ret.drawn[1].linestyle = CyclicStyle(ret.linestyle, ret.lines)
         /\ ret.drawn[1].marker = CyclicStyle(ret.marker, ret.lines)
         /\ ret.color.type = "Palette" =>
              ret.drawn[1].color =
                ret.color.pal.d_pal.data[(ret.lines % Len(ret.color.pal.d_pal.data)) + 1]
    /\ (ret.ndim = 2 /\ "str" \notin {ret.color.type, ret.linestyle.type,
                                      ret.marker.type}) =>
         /\ ret.err = ""
         /\ Len(ret.drawn) = ret.n
         /\ \A j \in 1..Len(ret.drawn) :
              /\ ret.drawn[j].linestyle = CyclicStyle(ret.linestyle, j - 1)
              /\ ret.drawn[j].marker = CyclicStyle(ret.marker, j - 1)

(***************************************************************************)
(* _artist.py: MultiArtist, and Colony.annotate of _colony.py              *)
(* A queued Sketch is [fn, kw_ax, raises]: the method queued, whether its  *)
(* keyword arguments hold 'ax', and whether its plotting function raises   *)
(* when called.  show is modelled for mosaic=None.                         *)
(***************************************************************************)
MaxQueue == 3      \* longest queue of a MultiArtist
MaxGrid == 3       \* largest ncols / nrows argument of show

Sketches ==
  {[fn |-> "lineplot", kw_ax |-> FALSE, raises |-> FALSE],
   [fn |-> "scatterplot", kw_ax |-> TRUE, raises |-> FALSE],
   [fn |-> "sketch", kw_ax |-> FALSE, raises |-> TRUE],
   [fn |-> "sketch", kw_ax |-> FALSE, raises |-> FALSE]}

GridArgs == {PyNone} \cup {PyInt(n) : n \in 0..MaxGrid}

AnnotStyles == {<<"a">>, <<"a", ")">>, <<"a", "b", "c">>}

Letters == <<"a", "b", "c", "d", "e", "f", "g", "h", "i", "j">>

\* chr(ord(ch) + i) for the letters an annotation can reach
ChrOrdPlus(ch, i) ==
  LET at == CHOOSE k \in DOMAIN Letters : Letters[k] = ch
  IN IF at + i \in DOMAIN Letters THEN Letters[at + i] ELSE "?"

\* Colony.annotate(ax, i, annot_style): the label set on the axis
annotate(i, annot_style) ==
  IF Len(annot_style) \notin {1, 2}
  THEN [err |-> "ValueError", label |-> <<>>]
  ELSE IF "annotation" \notin FontSizeFields
  THEN [err |-> "AttributeError", label |-> <<>>]
  ELSE [err |-> "",
        label |-> <<ChrOrdPlus(annot_style[1], i)>>
                    \o (IF Len(annot_style) > 1 THEN <<annot_style[2]>> ELSE <<>>)]

\* len(self) // n
FloorDiv(a, b) == a \div b

\* ceil(len(self) / n)
CeilDiv(a, b) == (a + b - 1) \div b

\* The grid of show: [err, nrows, ncols]
GridOf(ncols, nrows, len) ==
  IF there_can_be_only_one(<<ncols, nrows>>).err # ""
  THEN [err |-> "ValueError", nrows |-> 0, ncols |-> 0]
  ELSE IF IsNone(nrows)
  THEN LET c == Min(ncols.v, len)
       IN [err |-> "", nrows |-> CeilDiv(len, c), ncols |-> c]
  ELSE IF IsNone(ncols)
  THEN LET r == Min(nrows.v, len)
       IN [err |-> "", nrows |-> r, ncols |-> CeilDiv(len, r)]
  ELSE IF nrows.v < 1 \/ ncols.v < 1
  THEN [err |-> "ValueError", nrows |-> nrows.v, ncols |-> ncols.v]
  ELSE [err |-> "", nrows |-> nrows.v, ncols |-> ncols.v]

\* The loop of show over zip_longest(queue, axes) from position i: the
\* entries called, the labels set and the axes removed before the first
\* failure
RECURSIVE RenderFrom(_, _, _, _, _, _)
RenderFrom(i, q, cells, do_annotate, annot_style, acc) ==
  IF i > Max(Len(q), cells) THEN acc
  ELSE IF i > Len(q)
  THEN RenderFrom(i + 1, q, cells, do_annotate, annot_style,
                  [acc EXCEPT !.removed = @ \cup {i}])
  ELSE IF q[i].kw_ax THEN [acc EXCEPT !.err = "ValueError"]
  ELSE IF q[i].raises
  THEN [acc EXCEPT !.err = "Exception", !.calls = Append(@, i)]
  ELSE LET called == [acc EXCEPT !.calls = Append(@, i)]
           a == annotate(i - 1, annot_style)
       IN IF ~do_annotate
          THEN RenderFrom(i + 1, q, cells, do_annotate, annot_style, called)
          ELSE IF a.err # "" THEN [called EXCEPT !.err = a.err]
          ELSE RenderFrom(i + 1, q, cells, do_annotate, annot_style,
                          [called EXCEPT !.labels = Append(@, a.label)])

\* The queue is emptied whatever `clear` is
AlwaysCleared(q, clear) == <<>>

\* if clear: self.clear()
AfterShow(q, clear) == IF clear THEN <<>> ELSE q

NoRender == [err |-> "", calls |-> <<>>, labels |-> <<>>, removed |-> {}]

\* MultiArtist.show: [err, figure, nrows, ncols, calls, labels, removed,
\* returned, queue]
show(q, ncols, nrows, do_annotate, annot_style, clear) ==
  LET grid == GridOf(ncols, nrows, Len(q))
      drawn == RenderFrom(1, q, grid.nrows * grid.ncols, do_annotate,
                          annot_style, NoRender)
      fail(e, fig, r) == [err |-> e, figure |-> fig, nrows |-> grid.nrows,
                          ncols |-> grid.ncols, calls |-> r.calls,
                          labels |-> r.labels, removed |-> r.removed,
                          returned |-> FALSE, queue |-> q]
  IN IF Len(q) = 0
     THEN [err |-> "ValueError", figure |-> FALSE, nrows |-> 0, ncols |-> 0,
           calls |-> <<>>, labels |-> <<>>, removed |-> {}, returned |-> FALSE,
           queue |-> q]
     ELSE IF grid.err # "" THEN fail(grid.err, FALSE, NoRender)
     ELSE IF drawn.err # "" THEN fail(drawn.err, TRUE, drawn)
     ELSE [err |-> "", figure |-> TRUE, nrows |-> grid.nrows,
           ncols |-> grid.ncols, calls |-> drawn.calls, labels |-> drawn.labels,
           removed |-> drawn.removed, returned |-> TRUE,
           queue |-> AfterShow(q, clear)]

\* lineplot, scatterplot or sketch called on a MultiArtist
Queue ==
  \E sketch \in Sketches :
    /\ ret = NoCall
    /\ Len(queue) < MaxQueue
    /\ queue' = Append(queue, sketch)
    /\ ret' = [op |-> "queue", err |-> "", before |-> queue, sketch |-> sketch,
               calls |-> <<>>]
    /\ UNCHANGED <<data, palette>>

Clear ==
  /\ ret = NoCall
  /\ queue' = <<>>
  /\ ret' = [op |-> "clear", err |-> "", before |-> queue]
  /\ UNCHANGED <<data, palette>>

Show ==
  \E ncols \in GridArgs, nrows \in GridArgs, do_annotate \in BOOLEAN,
     annot_style \in AnnotStyles, clear \in BOOLEAN :
    LET r == show(queue, ncols, nrows, do_annotate, annot_style, clear)
    IN /\ ret = NoCall
       /\ queue' = r.queue
       /\ ret' = [op |-> "show", before |-> queue, ncols_arg |-> ncols,
                  nrows_arg |-> nrows, annotate |-> do_annotate,
                  annot_style |-> annot_style, clear |-> clear, err |-> r.err,
                  figure |-> r.figure, nrows |-> r.nrows, ncols |-> r.ncols,
                  calls |-> r.calls, labels |-> r.labels,
                  removed |-> r.removed, returned |-> r.returned]
       /\ UNCHANGED <<data, palette>>

NextArtist ==
  \/ Queue
  \/ Clear
  \/ Show
  \/ Return

SpecArtist == Init /\ [][NextArtist]_vars

ShowDefaults ==
  /\ ret.ncols_arg = PyInt(3)
  /\ ret.nrows_arg = PyNone
  /\ ret.annotate
  /\ ret.annot_style = <<"a">>
  /\ ~ret.clear

\* C16: queueing draws nothing and appends exactly one entry to the end of
\* the queue; show() with default arguments on a queue of L >= 1 entries
\* that render calls the entries in queue order, each once on its own axis,
\* labels the i-th axis with the character i positions after 'a', removes
\* the axes beyond position L and returns the axes.
QueueThenShowRenders ==
  /\ ret.op = "queue" =>
       /\ queue = Append(ret.before, ret.sketch)
       /\ ret.calls = <<>>
  /\ (/\ ret.op = "show"
      /\ ShowDefaults
      /\ Len(ret.before) >= 1
      /\ \A i \in DOMAIN ret.before : ~ret.before[i].kw_ax /\ ~ret.before[i].raises)
     => /\ ret.err = ""
        /\ ret.returned
        /\ ret.calls = [i \in 1..Len(ret.before) |-> i]
        /\ ret.labels = [i \in 1..Len(ret.before) |-> <<Letters[i]>>]
        /\ ret.removed = (Len(ret.before) + 1)..(ret.nrows * ret.ncols)

\* C17: show on an empty queue fails before a figure is created; a
\* successful show leaves the queue as it was when clear is false and empty
\* when clear is true; a show that fails while rendering, an entry queued
\* with an 'ax' keyword included, leaves the queue as it was.
ShowQueueEffect ==
  ret.op = "show" =>
    /\ ret.before = <<>> =>
         /\ ret.err = "ValueError"
         /\ ~ret.figure
         /\ queue = <<>>
    /\ (ret.err = "" /\ ~ret.clear) =>
         /\ queue = ret.before
         /\ ret.calls = [i \in 1..Len(ret.before) |-> i]
    /\ (ret.err = "" /\ ret.clear) => queue = <<>>
    /\ ret.err # "" => queue = ret.before
    /\ (\E i \in DOMAIN ret.before : ret.before[i].kw_ax \/ ret.before[i].raises)
         => ret.err # ""

ShowKeptQueueWitness ==
  /\ ret.op = "show"
  /\ Len(ret.before) = 2
  /\ ret.err = ""
  /\ ~ret.clear
  /\ queue = ret.before

ShowClearedWitness ==
  /\ ret.op = "show"
  /\ Len(ret.before) = 2
  /\ ret.err = ""
  /\ ret.clear
  /\ queue = <<>>

ShowAxKeywordWitness ==
  /\ ret.op = "show"
  /\ Len(ret.before) = 2
  /\ ret.before[2].kw_ax
  /\ ret.clear
  /\ ret.calls = <<1>>
  /\ ret.err = "ValueError"
  /\ queue = ret.before

ShowEmptyWitness ==
  /\ ret.op = "show"
  /\ ret.before = <<>>
  /\ ret.err = "ValueError"

\* C18: for a queue of L >= 1 entries, show fails unless exactly one of
\* ncols and nrows is given; ncols = c >= 1 alone gives min(c, L) columns
\* and ceil(L / min(c, L)) rows, nrows = r >= 1 alone gives min(r, L) rows
\* and ceil(L / min(r, L)) columns; the grid has at least L cells and fewer
\* unused cells than one full row (respectively column).
GridSizing ==
  (ret.op = "show" /\ Len(ret.before) >= 1) =>
    LET L == Len(ret.before)
        c == ret.ncols_arg
        r == ret.nrows_arg
    IN /\ (c.type = "NoneType" <=> r.type = "NoneType") =>
            ret.err # "" /\ ~ret.figure
       /\ (c.type = "int" /\ c.v >= 1 /\ r.type = "NoneType") =>
            /\ ret.figure
            /\ ret.ncols = (IF c.v < L THEN c.v ELSE L)
            /\ ret.nrows * ret.ncols >= L
            /\ (ret.nrows - 1) * ret.ncols < L
            /\ ret.nrows * ret.ncols - L < ret.ncols
       /\ (r.type = "int" /\ r.v >= 1 /\ c.type = "NoneType") =>
            /\ ret.figure
            /\ ret.nrows = (IF r.v < L THEN r.v ELSE L)
            /\ ret.nrows * ret.ncols >= L
            /\ ret.nrows * (ret.ncols - 1) < L
            /\ ret.nrows * ret.ncols - L < ret.nrows

GridCeilWitness ==
  /\ ret.op = "show"
  /\ Len(ret.before) = 3
  /\ ret.ncols_arg = PyInt(2)
  /\ ret.nrows_arg = PyNone
  /\ ret.nrows = 2
  /\ ret.ncols = 2
  /\ ret.figure

GridByRowsWitness ==
  /\ ret.op = "show"
  /\ Len(ret.before) = 3
  /\ ret.nrows_arg = PyInt(2)
  /\ ret.ncols_arg = PyNone
  /\ ret.nrows = 2
  /\ ret.ncols = 2
  /\ ret.removed = {4}

GridBothSetWitness ==
  /\ ret.op = "show"
  /\ Len(ret.before) = 3
  /\ ret.nrows_arg = PyInt(2)
  /\ ret.ncols_arg = PyInt(2)
  /\ ret.err = "ValueError"

====
